---------------------------- MODULE Spec2Model ----------------------------
(***************************************************************************)
(* A model of src/main.py, the FLAC duplicate finder and remover.          *)
(*                                                                         *)
(* Strings are sequences of one-character strings, so that the regular     *)
(* expressions and str.strip of extract_song_title, the "*.flac" glob and  *)
(* Python's string comparison are computed character by character.         *)
(*                                                                         *)
(* A directory is a function from entry names to file contents (byte       *)
(* sequences); a file's size is the length of its content.                  *)
(*                                                                         *)
(* Specifications:                                                         *)
(*   Spec       main() from the first prompt (line 221) to the clear() of  *)
(*              line 262, remove_duplicates stepping one group and one     *)
(*              file at a time;                                            *)
(*   SpecTitle  extract_song_title applied to generated filenames;         *)
(*   SpecKeep   choose_file_to_keep applied to generated file lists.       *)
(***************************************************************************)
EXTENDS Integers, Sequences, FiniteSets, TLC

VARIABLES
    pc,            \* position of the running function
    fs,            \* the directory: entry name -> content
    unreadable,    \* the entries whose open or read raises
    dirExists,     \* Path(directory).exists()
    byHash,        \* TRUE when main took the hash branch (choice == "2")
    duplicates,    \* the insertion-ordered dict: sequence of <<key, files>>
    dry_run,       \* remove_duplicates' parameter
    gi,            \* index of the group the for loop of line 129 is at
    keep_file,     \* line 134
    files_to_remove, \* line 135
    ri,            \* index in files_to_remove of the loop of line 140
    removed_count, \* line 127
    out,           \* the lines printed, as tagged tuples
    answered,      \* the normalised answers the user has given so far
    filename,      \* SpecTitle: the argument of extract_song_title
    parts,         \* SpecTitle: how filename was put together
    title,         \* SpecTitle: the value returned
    files          \* SpecKeep: the argument of choose_file_to_keep

vars == <<pc, fs, unreadable, dirExists, byHash, duplicates, dry_run, gi, keep_file,
          files_to_remove, ri, removed_count, out, answered,
          filename, parts, title, files>>

NoFile == <<>>

-----------------------------------------------------------------------------
(* Bounds *)

MaxFiles == 4

MaxTitleLen == 3

-----------------------------------------------------------------------------
(* Strings *)

SeqsUpTo(S, n) == UNION {[1..k -> S] : k \in 0..n}

Whitespace == {" "}

Quotes == {"'", "\""}

Digits == {"0", "1", "2", "3", "4", "5", "6", "7", "8", "9"}

\* ord(c) for the characters the model uses
Ord(c) ==
    CASE c = " "  -> 32
      [] c = "\"" -> 34
      [] c = "'"  -> 39
      [] c = "-"  -> 45
      [] c = "."  -> 46
      [] c = "0"  -> 48
      [] c = "1"  -> 49
      [] c = "2"  -> 50
      [] c = "3"  -> 51
      [] c = "4"  -> 52
      [] c = "5"  -> 53
      [] c = "6"  -> 54
      [] c = "7"  -> 55
      [] c = "8"  -> 56
      [] c = "9"  -> 57
      [] c = "E"  -> 69
      [] c = "N"  -> 78
      [] c = "O"  -> 79
      [] c = "S"  -> 83
      [] c = "Y"  -> 89
      [] c = "a"  -> 97
      [] c = "b"  -> 98
      [] c = "c"  -> 99
      [] c = "e"  -> 101
      [] c = "f"  -> 102
      [] c = "l"  -> 108
      [] c = "m"  -> 109
      [] c = "n"  -> 110
      [] c = "o"  -> 111
      [] c = "p"  -> 112
      [] c = "s"  -> 115
      [] c = "x"  -> 120
      [] c = "y"  -> 121

\* Python's str < str: lexicographic on code points, a proper prefix first
RECURSIVE StrLess(_, _)
StrLess(a, b) ==
    IF b = <<>> THEN FALSE
    ELSE IF a = <<>> THEN TRUE
    ELSE IF Ord(Head(a)) # Ord(Head(b)) THEN Ord(Head(a)) < Ord(Head(b))
    ELSE StrLess(Tail(a), Tail(b))

\* number of leading characters of s that are in cs
RECURSIVE LeadingIn(_, _)
LeadingIn(s, cs) ==
    IF s # <<>> /\ Head(s) \in cs THEN 1 + LeadingIn(Tail(s), cs) ELSE 0

\* number of trailing characters of s that are in cs
RECURSIVE TrailingIn(_, _)
TrailingIn(s, cs) ==
    IF s # <<>> /\ s[Len(s)] \in cs
    THEN 1 + TrailingIn(SubSeq(s, 1, Len(s) - 1), cs)
    ELSE 0

Drop(s, n) == SubSeq(s, n + 1, Len(s))

\* str.strip(chars): leading then trailing characters of cs removed
StripChars(s, cs) ==
    LET t == Drop(s, LeadingIn(s, cs))
    IN  SubSeq(t, 1, Len(t) - TrailingIn(t, cs))

\* str.strip()
Strip(s) == StripChars(s, Whitespace)

LowerChar(c) ==
    CASE c = "Y" -> "y"
      [] c = "E" -> "e"
      [] c = "S" -> "s"
      [] c = "N" -> "n"
      [] c = "O" -> "o"
      [] OTHER   -> c

\* str.lower()
Lower(s) == [i \in 1..Len(s) |-> LowerChar(s[i])]

-----------------------------------------------------------------------------
(* extract_song_title *)

\* re.sub(r"^\d+\s*-\s*", "", filename): the three classes are disjoint, so
\* the greedy match is the only one
RemoveTrackPrefix(s) ==
    LET nd == LeadingIn(s, Digits)
        r1 == Drop(s, nd)
        r2 == Drop(r1, LeadingIn(r1, Whitespace))
    IN  IF nd = 0 \/ r2 = <<>> \/ Head(r2) # "-" THEN s
        ELSE LET r3 == Tail(r2) IN Drop(r3, LeadingIn(r3, Whitespace))

\* a variant of RemoveExtension that cuts at the first period
RemoveExtensionAtFirstDot(s) ==
    LET dots == {i \in 1..Len(s) : s[i] = "."}
    IN  IF dots = {} THEN s
        ELSE SubSeq(s, 1, (CHOOSE i \in dots : \A j \in dots : i <= j) - 1)

\* re.sub(r"\.[^.]+$", "", title): a period followed by one or more
\* non-period characters up to the end, that is the last period of the string
\* unless it is the last character
RemoveExtension(s) ==
    LET dots == {i \in 1..Len(s) : s[i] = "."}
        last == CHOOSE i \in dots : \A j \in dots : j <= i
    IN  IF dots = {} \/ last = Len(s) THEN s ELSE SubSeq(s, 1, last - 1)

extract_song_title(name) ==
    Strip(StripChars(RemoveExtension(RemoveTrackPrefix(name)), Quotes))


-----------------------------------------------------------------------------
(* The directory *)

FLAC == <<".", "f", "l", "a", "c">>

\* The entry names a directory is drawn from: four that match "*.flac", two
\* with title a and two with title b, and one that does not match.
Pool ==
    { <<"1", "-", "a">> \o FLAC,
      <<"2", " ", "-", " ", "a">> \o FLAC,
      <<"b">> \o FLAC,
      <<"3", "-", "'", "b", "'">> \o FLAC,
      <<"1", "-", "a", ".", "m", "p", "3">> }

\* File contents, as byte sequences: two of one byte and one of two bytes
Contents == { <<7>>, <<9>>, <<7, 7>> }

Directories ==
    UNION { [S -> Contents] : S \in {T \in SUBSET Pool : Cardinality(T) <= MaxFiles} }

\* f.stat().st_size
st_size(f) == Len(fs[f])

EndsWith(s, suffix) ==
    Len(s) >= Len(suffix) /\ SubSeq(s, Len(s) - Len(suffix) + 1, Len(s)) = suffix

\* music_dir.glob("*.flac"), as a set: the order of enumeration is the
\* file system's
Glob == {n \in DOMAIN fs : EndsWith(n, FLAC)}

\* the orders in which a set can be enumerated
Orders(S) ==
    {o \in [1..Cardinality(S) -> S] : \A i, j \in 1..Cardinality(S) : o[i] = o[j] => i = j}

-----------------------------------------------------------------------------
(* get_file_hash *)

ChunkSize == 4096

\* iter(lambda: f.read(4096), b""): the content in pieces of ChunkSize bytes
RECURSIVE Chunks(_)
Chunks(bytes) ==
    IF bytes = <<>> THEN <<>>
    ELSE IF Len(bytes) <= ChunkSize THEN <<bytes>>
    ELSE <<SubSeq(bytes, 1, ChunkSize)>> \o Chunks(Drop(bytes, ChunkSize))

\* hash_md5.update(chunk). MD5 itself is not computed: the digest state is a
\* positional code of the bytes fed so far, which like MD5 depends on the
\* bytes and their order only, not on how they were cut into chunks. The
\* contents of the model are short enough that the code stays below 2^128.
RECURSIVE Md5Update(_, _)
Md5Update(h, chunk) ==
    IF chunk = <<>> THEN h ELSE Md5Update(h * 257 + Head(chunk) + 1, Tail(chunk))

RECURSIVE Md5Feed(_, _)
Md5Feed(h, chunks) ==
    IF chunks = <<>> THEN h ELSE Md5Feed(Md5Update(h, Head(chunks)), Tail(chunks))

\* the digest of the file's content, when every read succeeds
get_file_hash(f) == Md5Feed(0, Chunks(fs[f]))

-----------------------------------------------------------------------------
(* find_duplicates_by_title, find_duplicates_by_hash *)

\* duplicates[key].append(file_path) on a defaultdict(list), which like every
\* dict keeps its keys in the order of their first insertion
DictAppend(d, key, f) ==
    IF \E i \in 1..Len(d) : d[i][1] = key
    THEN [i \in 1..Len(d) |-> IF d[i][1] = key THEN <<key, Append(d[i][2], f)>> ELSE d[i]]
    ELSE Append(d, <<key, <<f>>>>)

RECURSIVE GroupByTitle(_, _)
GroupByTitle(d, order) ==
    IF order = <<>> THEN d
    ELSE GroupByTitle(DictAppend(d, extract_song_title(Head(order)), Head(order)),
                      Tail(order))

RECURSIVE GroupByHash(_, _)
GroupByHash(d, order) ==
    IF order = <<>> THEN d
    ELSE GroupByHash(DictAppend(d, get_file_hash(Head(order)), Head(order)),
                     Tail(order))

MoreThanOne(e) == Len(e[2]) > 1

\* a variant of OnlyDuplicates that keeps every bucket
KeepEveryBucket(d) == d

\* {key: files for key, files in duplicates.items() if len(files) > 1}
OnlyDuplicates(d) == SelectSeq(d, MoreThanOne)

\* the mapping find_duplicates_by_title returns when glob yields `order`
find_duplicates_by_title(order) == OnlyDuplicates(GroupByTitle(<<>>, order))

\* the mapping find_duplicates_by_hash returns when glob yields `order` and
\* every file is read
find_duplicates_by_hash(order) == OnlyDuplicates(GroupByHash(<<>>, order))

-----------------------------------------------------------------------------
(* choose_file_to_keep *)

\* (-size, name) of x < (-size, name) of y, Python's tuple comparison
KeyLess(x, y) ==
    \/ -x[2] < -y[2]
    \/ x[2] = y[2] /\ StrLess(x[1], y[1])

\* list.sort is stable: x goes after every element whose key is not greater
RECURSIVE InsertSorted(_, _)
InsertSorted(sorted, x) ==
    IF sorted = <<>> THEN <<x>>
    ELSE IF KeyLess(x, Head(sorted)) THEN <<x>> \o sorted
    ELSE <<Head(sorted)>> \o InsertSorted(Tail(sorted), x)

RECURSIVE SortByKey(_, _)
SortByKey(sorted, rest) ==
    IF rest = <<>> THEN sorted
    ELSE SortByKey(InsertSorted(sorted, Head(rest)), Tail(rest))

\* a variant of choose_file_to_keep that keeps the first file of the list
choose_first_listed(fl) == fl[1]

\* a variant of choose_file_to_keep that keeps a file of some other group
choose_from_any_group(fl) ==
    IF \E f \in DOMAIN fs : \A i \in 1..Len(fl) : fl[i] # f
    THEN CHOOSE f \in DOMAIN fs : \A i \in 1..Len(fl) : fl[i] # f
    ELSE fl[1]

\* the file returned when every stat succeeds
choose_file_to_keep(fl) ==
    LET files_with_stats == [i \in 1..Len(fl) |-> <<fl[i], st_size(fl[i])>>]
    IN  SortByKey(<<>>, files_with_stats)[1][1]

\* a variant of FilesToRemove that removes every file of the group
EveryFile(fl, keep) == fl

\* [f for f in files if f != keep_file]
FilesToRemove(fl, keep) ==
    LET NotKept(f) == f # keep IN SelectSeq(fl, NotKept)

-----------------------------------------------------------------------------
(* main, lines 221 to 262, with display_duplicates and remove_duplicates *)

\* what the user may type at the three prompts
ChoiceInputs == { <<"1">>, <<" ", "2">>, <<"x">> }

ActionInputs == { <<"1">>, <<"2", " ">>, <<"3">>, <<"x">> }

ConfirmInputs == { <<"y", "e", "s">>, <<" ", "Y", "E", "S">>, <<"n", "o">>, <<"y">> }

Yes == <<"y", "e", "s">>

Emit(line) == out' = Append(out, line)

\* The state when main reaches its first prompt: list.txt has been read and
\* the playlists downloaded into the directory. A directory that does not
\* exist has no entries.
Init ==
    /\ pc = "choice"
    /\ dirExists \in BOOLEAN
    /\ fs \in IF dirExists THEN Directories ELSE {<<>>}
    /\ unreadable \in {U \in SUBSET Glob : Cardinality(U) <= 1}
    /\ byHash = FALSE
    /\ duplicates = <<>>
    /\ dry_run = TRUE
    /\ gi = 0
    /\ keep_file = NoFile
    /\ files_to_remove = <<>>
    /\ ri = 0
    /\ removed_count = 0
    /\ out = <<>>
    /\ answered = <<>>
    /\ filename = <<>>
    /\ parts = <<>>
    /\ title = <<>>
    /\ files = <<>>

rdLocals == <<dry_run, gi, keep_file, files_to_remove, ri, removed_count>>

pureVars == <<filename, parts, title, files>>

\* lines 225-229 with find_duplicates_by_title (60-75)
ChooseTitle ==
    /\ pc = "choice"
    /\ \E raw \in ChoiceInputs :
         /\ Strip(raw) = <<"1">>
         /\ answered' = Append(answered, Strip(raw))
    /\ byHash' = FALSE
    /\ IF ~dirExists
       THEN /\ duplicates' = <<>>
            /\ Emit(<<"Directory does not exist">>)
       ELSE /\ \E order \in Orders(Glob) :
                 duplicates' = find_duplicates_by_title(order)
            /\ out' = out
    /\ pc' = "display"
    /\ UNCHANGED <<fs, unreadable, dirExists, rdLocals, pureVars>>

\* lines 230-232 with find_duplicates_by_hash (78-92), every file read
ChooseHash ==
    /\ pc = "choice"
    /\ dirExists => Glob \cap unreadable = {}
    /\ \E raw \in ChoiceInputs :
         /\ Strip(raw) = <<"2">>
         /\ answered' = Append(answered, Strip(raw))
    /\ byHash' = TRUE
    /\ IF ~dirExists
       THEN /\ duplicates' = <<>>
            /\ Emit(<<"Directory does not exist">>)
       ELSE /\ \E order \in Orders(Glob) :
                 duplicates' = find_duplicates_by_hash(order)
            /\ Emit(<<"Computing file hashes">>)
    /\ pc' = "display"
    /\ UNCHANGED <<fs, unreadable, dirExists, rdLocals, pureVars>>

\* a variant of ChooseHashReadFails that leaves the unreadable files out and
\* groups the others
ChooseHashSkippingUnreadable ==
    /\ pc = "choice"
    /\ \E raw \in ChoiceInputs :
         /\ Strip(raw) = <<"2">>
         /\ answered' = Append(answered, Strip(raw))
    /\ byHash' = TRUE
    /\ dirExists
    /\ Glob \cap unreadable # {}
    /\ \E order \in Orders(Glob \ unreadable) :
         duplicates' = find_duplicates_by_hash(order)
    /\ Emit(<<"Computing file hashes">>)
    /\ pc' = "display"
    /\ UNCHANGED <<fs, unreadable, dirExists, rdLocals, pureVars>>

\* lines 230-231 when open or read of line 54-55 raises for some file: the
\* exception leaves get_file_hash, find_duplicates_by_hash and main, and
\* `duplicates` of main is never bound
ChooseHashReadFails ==
    /\ pc = "choice"
    /\ \E raw \in ChoiceInputs :
         /\ Strip(raw) = <<"2">>
         /\ answered' = Append(answered, Strip(raw))
    /\ byHash' = TRUE
    /\ dirExists
    /\ Glob \cap unreadable # {}
    /\ Emit(<<"Computing file hashes">>)
    /\ pc' = "raised_in_get_file_hash"
    /\ UNCHANGED <<fs, unreadable, dirExists, duplicates, rdLocals, pureVars>>

\* lines 233-235
ChooseInvalid ==
    /\ pc = "choice"
    /\ \E raw \in ChoiceInputs :
         /\ Strip(raw) \notin {<<"1">>, <<"2">>}
         /\ answered' = Append(answered, Strip(raw))
    /\ Emit(<<"Invalid choice!">>)
    /\ pc' = "returned"
    /\ UNCHANGED <<fs, unreadable, dirExists, byHash, duplicates, rdLocals, pureVars>>

\* display_duplicates (105-122) and the test of line 237; every stat of line
\* 121 succeeds
Display ==
    /\ pc = "display"
    /\ IF duplicates = <<>>
       THEN /\ Emit(<<"No duplicates found!">>)
            /\ pc' = "relocate"
       ELSE /\ \A i \in 1..Len(duplicates) : \A j \in 1..Len(duplicates[i][2]) :
                 duplicates[i][2][j] \in DOMAIN fs
            /\ Emit(<<"Found groups", Len(duplicates)>>)
            /\ pc' = "action"
    /\ UNCHANGED <<fs, unreadable, dirExists, byHash, duplicates, answered, rdLocals, pureVars>>

\* display_duplicates when a stat of line 121 raises
DisplayStatFails ==
    /\ pc = "display"
    /\ duplicates # <<>>
    /\ Emit(<<"Found groups", Len(duplicates)>>)
    /\ pc' = "raised_in_display_duplicates"
    /\ UNCHANGED <<fs, unreadable, dirExists, byHash, duplicates, answered, rdLocals, pureVars>>

\* the entry of remove_duplicates (125-127)
CallRemoveDuplicates(dry) ==
    /\ dry_run' = dry
    /\ removed_count' = 0
    /\ gi' = 1
    /\ pc' = "rd_group"
    /\ UNCHANGED <<keep_file, files_to_remove, ri>>

\* lines 243-246
ActionDryRun ==
    /\ pc = "action"
    /\ \E raw \in ActionInputs :
         /\ Strip(raw) = <<"1">>
         /\ answered' = Append(answered, Strip(raw))
    /\ CallRemoveDuplicates(TRUE)
    /\ UNCHANGED <<fs, unreadable, dirExists, byHash, duplicates, out, pureVars>>

\* lines 243, 247
ActionRemove ==
    /\ pc = "action"
    /\ \E raw \in ActionInputs :
         /\ Strip(raw) = <<"2">>
         /\ answered' = Append(answered, Strip(raw))
    /\ pc' = "confirm"
    /\ UNCHANGED <<fs, unreadable, dirExists, byHash, duplicates, out, rdLocals, pureVars>>

\* lines 243, 257-262
ActionExit ==
    /\ pc = "action"
    /\ \E raw \in ActionInputs :
         /\ Strip(raw) = <<"3">>
         /\ answered' = Append(answered, Strip(raw))
    /\ Emit(<<"Exiting without changes.">>)
    /\ pc' = "relocate"
    /\ UNCHANGED <<fs, unreadable, dirExists, byHash, duplicates, rdLocals, pureVars>>

\* lines 243, 259-262
ActionInvalid ==
    /\ pc = "action"
    /\ \E raw \in ActionInputs :
         /\ Strip(raw) \notin {<<"1">>, <<"2">>, <<"3">>}
         /\ answered' = Append(answered, Strip(raw))
    /\ Emit(<<"Invalid choice!">>)
    /\ pc' = "relocate"
    /\ UNCHANGED <<fs, unreadable, dirExists, byHash, duplicates, rdLocals, pureVars>>

\* a variant of Confirmed that takes any answer starting with y
ConfirmedByFirstLetter(raw) == Lower(Strip(raw)) # <<>> /\ Lower(Strip(raw))[1] = "y"

\* the test of line 253 on input(...).strip().lower()
Confirmed(raw) == Lower(Strip(raw)) = Yes

\* lines 248-254
ConfirmYes ==
    /\ pc = "confirm"
    /\ \E raw \in ConfirmInputs :
         /\ Confirmed(raw)
         /\ answered' = Append(answered, Lower(Strip(raw)))
    /\ CallRemoveDuplicates(FALSE)
    /\ UNCHANGED <<fs, unreadable, dirExists, byHash, duplicates, out, pureVars>>

\* lines 248-256, 262
ConfirmNo ==
    /\ pc = "confirm"
    /\ \E raw \in ConfirmInputs :
         /\ ~Confirmed(raw)
         /\ answered' = Append(answered, Lower(Strip(raw)))
    /\ Emit(<<"Operation cancelled.">>)
    /\ pc' = "relocate"
    /\ UNCHANGED <<fs, unreadable, dirExists, byHash, duplicates, rdLocals, pureVars>>

-----------------------------------------------------------------------------
(* remove_duplicates, one step per group and per file *)

mainVars == <<unreadable, dirExists, byHash, duplicates, answered>>

\* the files of the group the loop of line 129 is at
GroupFiles == duplicates[gi][2]

\* file_to_remove of line 140
FileToRemove == files_to_remove[ri]

\* a variant of RdGroup that decides the group again on the next iteration
RdGroupStaying ==
    /\ pc = "rd_group"
    /\ gi <= Len(duplicates)
    /\ Len(GroupFiles) > 1
    /\ \A j \in 1..Len(GroupFiles) : GroupFiles[j] \in DOMAIN fs
    /\ keep_file' = choose_file_to_keep(GroupFiles)
    /\ files_to_remove' = FilesToRemove(GroupFiles, keep_file')
    /\ out' = out \o << <<"Group", duplicates[gi][1]>>, <<"Keeping", keep_file'>> >>
    /\ UNCHANGED <<pc, fs, gi, ri, dry_run, removed_count, mainVars, pureVars>>

\* lines 129-138: the next group, skipped when it has at most one file,
\* decided otherwise (every stat of line 98 succeeds)
RdGroup ==
    /\ pc = "rd_group"
    /\ gi <= Len(duplicates)
    /\ IF Len(GroupFiles) <= 1
       THEN /\ gi' = gi + 1
            /\ UNCHANGED <<pc, keep_file, files_to_remove, ri, out>>
       ELSE /\ \A j \in 1..Len(GroupFiles) : GroupFiles[j] \in DOMAIN fs
            /\ keep_file' = choose_file_to_keep(GroupFiles)
            /\ files_to_remove' = FilesToRemove(GroupFiles, keep_file')
            /\ out' = out \o << <<"Group", duplicates[gi][1]>>, <<"Keeping", keep_file'>> >>
            /\ ri' = 1
            /\ pc' = "rd_file"
            /\ gi' = gi
    /\ UNCHANGED <<fs, dry_run, removed_count, mainVars, pureVars>>

\* line 134 when a stat of line 98 raises: the exception leaves
\* choose_file_to_keep, remove_duplicates and main
RdStatFails ==
    /\ pc = "rd_group"
    /\ gi <= Len(duplicates)
    /\ Len(GroupFiles) > 1
    /\ pc' = "raised_in_choose_file_to_keep"
    /\ UNCHANGED <<fs, out, rdLocals, mainVars, pureVars>>

\* a variant of RdWouldRemove that unlinks the file it reports
RdWouldRemoveUnlinking ==
    /\ pc = "rd_file"
    /\ ri <= Len(files_to_remove)
    /\ dry_run
    /\ FileToRemove \in DOMAIN fs
    /\ fs' = [n \in DOMAIN fs \ {FileToRemove} |-> fs[n]]
    /\ Emit(<<"Would remove", FileToRemove>>)
    /\ ri' = ri + 1
    /\ UNCHANGED <<pc, dry_run, gi, keep_file, files_to_remove, removed_count,
                   mainVars, pureVars>>

\* lines 140-142
RdWouldRemove ==
    /\ pc = "rd_file"
    /\ ri <= Len(files_to_remove)
    /\ dry_run
    /\ Emit(<<"Would remove", FileToRemove>>)
    /\ ri' = ri + 1
    /\ UNCHANGED <<pc, fs, dry_run, gi, keep_file, files_to_remove, removed_count,
                   mainVars, pureVars>>

\* lines 140, 144-147: unlink succeeds, which takes an existing entry
RdUnlink ==
    /\ pc = "rd_file"
    /\ ri <= Len(files_to_remove)
    /\ ~dry_run
    /\ FileToRemove \in DOMAIN fs
    /\ fs' = [n \in DOMAIN fs \ {FileToRemove} |-> fs[n]]
    /\ Emit(<<"Removed", FileToRemove>>)
    /\ removed_count' = removed_count + 1
    /\ ri' = ri + 1
    /\ UNCHANGED <<pc, dry_run, gi, keep_file, files_to_remove, mainVars, pureVars>>

\* lines 140, 144-145, 148-149: unlink raises and the handler reports it
RdUnlinkFails ==
    /\ pc = "rd_file"
    /\ ri <= Len(files_to_remove)
    /\ ~dry_run
    /\ Emit(<<"Error removing", FileToRemove>>)
    /\ ri' = ri + 1
    /\ UNCHANGED <<pc, fs, dry_run, gi, keep_file, files_to_remove, removed_count,
                   mainVars, pureVars>>

\* the loop of line 140 is exhausted: back to line 129
RdEndGroup ==
    /\ pc = "rd_file"
    /\ ri > Len(files_to_remove)
    /\ pc' = "rd_group"
    /\ gi' = gi + 1
    /\ UNCHANGED <<fs, out, dry_run, keep_file, files_to_remove, ri, removed_count,
                   mainVars, pureVars>>

RECURSIVE WouldRemoveTotal(_)
WouldRemoveTotal(d) ==
    IF d = <<>> THEN 0 ELSE Len(Head(d)[2]) - 1 + WouldRemoveTotal(Tail(d))

\* lines 151-156, and the clear() of line 262
RdFinish ==
    /\ pc = "rd_group"
    /\ gi > Len(duplicates)
    /\ IF dry_run
       THEN Emit(<<"Dry run completed", WouldRemoveTotal(duplicates)>>)
       ELSE Emit(<<"Removed total", removed_count>>)
    /\ pc' = "relocate"
    /\ UNCHANGED <<fs, rdLocals, mainVars, pureVars>>

Next ==
    \/ ChooseTitle
    \/ ChooseHash
    \/ ChooseHashReadFails
    \/ ChooseInvalid
    \/ Display
    \/ DisplayStatFails
    \/ ActionDryRun
    \/ ActionRemove
    \/ ActionExit
    \/ ActionInvalid
    \/ ConfirmYes
    \/ ConfirmNo
    \/ RdGroup
    \/ RdStatFails
    \/ RdWouldRemove
    \/ RdUnlink
    \/ RdUnlinkFails
    \/ RdEndGroup
    \/ RdFinish

Spec == Init /\ [][Next]_vars

-----------------------------------------------------------------------------
(* SpecTitle: extract_song_title on filenames                              *)
(*   <digits><optional spaces>-<optional spaces><title>.<ext>              *)

TitleChars == {"a", " ", "'", "\"", ".", "-", "7"}

\* the titles: what follows the optional spaces, so not starting with one
Titles == {t \in SeqsUpTo(TitleChars, MaxTitleLen) : t = <<>> \/ t[1] \notin Whitespace}

TrackNumbers == { <<"7">>, <<"0", "7">> }

Spaces == { <<>>, <<" ">> }

Extensions == { <<"f", "l", "a", "c">>, <<"m", "p", "3">> }

QuoteMarks == { <<>>, <<"'">>, <<"\"">> }

\* the filename with track number d, spaces s1 and s2, title t, extension e
MakeName(d, s1, s2, t, e) == d \o s1 \o <<"-">> \o s2 \o t \o <<".">> \o e

mainIdle ==
    /\ fs = <<>>
    /\ unreadable = {}
    /\ dirExists = FALSE
    /\ byHash = FALSE
    /\ duplicates = <<>>
    /\ dry_run = TRUE
    /\ gi = 0
    /\ files_to_remove = <<>>
    /\ ri = 0
    /\ removed_count = 0
    /\ out = <<>>
    /\ answered = <<>>

InitTitle ==
    /\ pc = "title_call"
    /\ parts \in [d : TrackNumbers, s1 : Spaces, s2 : Spaces, t : Titles, e : Extensions]
    /\ filename = MakeName(parts.d, parts.s1, parts.s2, parts.t, parts.e)
    /\ title = <<>>
    /\ files = <<>>
    /\ keep_file = NoFile
    /\ mainIdle

TitleCall ==
    /\ pc = "title_call"
    /\ title' = extract_song_title(filename)
    /\ pc' = "title_done"
    /\ UNCHANGED <<fs, out, rdLocals, mainVars, filename, parts, files>>

NextTitle == TitleCall

SpecTitle == InitTitle /\ [][NextTitle]_vars

-----------------------------------------------------------------------------
(* SpecKeep: choose_file_to_keep on the entries of a directory, listed in   *)
(* any order                                                                *)

InitKeep ==
    /\ pc = "keep_call"
    /\ fs \in Directories
    /\ fs # <<>>
    /\ files \in Orders(DOMAIN fs)
    /\ unreadable = {}
    /\ keep_file = NoFile
    /\ dirExists = TRUE
    /\ byHash = FALSE
    /\ duplicates = <<>>
    /\ dry_run = TRUE
    /\ gi = 0
    /\ files_to_remove = <<>>
    /\ ri = 0
    /\ removed_count = 0
    /\ out = <<>>
    /\ answered = <<>>
    /\ filename = <<>>
    /\ parts = <<>>
    /\ title = <<>>

KeepCall ==
    /\ pc = "keep_call"
    /\ keep_file' = choose_file_to_keep(files)
    /\ pc' = "keep_done"
    /\ UNCHANGED <<fs, out, dry_run, gi, files_to_remove, ri, removed_count,
                   mainVars, pureVars>>

NextKeep == KeepCall

SpecKeep == InitKeep /\ [][NextKeep]_vars

-----------------------------------------------------------------------------
(* Reading the state: the printed lines and the groups *)

Range(q) == {q[i] : i \in 1..Len(q)}

\* the line <<tag, x>> has been printed
Said(tag, x) == \E i \in 1..Len(out) : out[i][1] = tag /\ out[i][2] = x

\* some line with this tag has been printed
SaidAny(tag) == \E i \in 1..Len(out) : out[i][1] = tag

OutcomeTags == {"Would remove", "Removed", "Error removing"}

\* the positions in the output of the "Group" lines of group g
GroupLines(g) ==
    {i \in 1..Len(out) : out[i][1] = "Group" /\ out[i][2] = duplicates[g][1]}

\* the positions in the output of the per-file lines of group g's files
OutcomeLines(g) ==
    {i \in 1..Len(out) : out[i][1] \in OutcomeTags /\ out[i][2] \in Range(duplicates[g][2])}

\* the state of group g in the state machine of the specification, section 4.5
GroupState(g) ==
    IF GroupLines(g) = {} THEN "Grouped"
    ELSE IF Cardinality(OutcomeLines(g)) < Len(duplicates[g][2]) - 1 THEN "Decided"
    ELSE IF \A i \in OutcomeLines(g) : out[i][1] = "Would remove" THEN "Reported"
    ELSE IF \A i \in OutcomeLines(g) : out[i][1] = "Removed" THEN "AppliedSuccess"
    ELSE "AppliedPartialFailure"

Rank(st) == IF st = "Grouped" THEN 0 ELSE IF st = "Decided" THEN 1 ELSE 2

InRemoveDuplicates == pc \in {"rd_group", "rd_file"}

-----------------------------------------------------------------------------
(* The claims *)

\* C1: every step of remove_duplicates called with dry_run=True, the step in
\* which a stat of choose_file_to_keep raises included, leaves the directory
\* as it was.
DryRunNeverChangesFiles ==
    [][(InRemoveDuplicates /\ dry_run) => fs' = fs]_vars

\* C1 witness: a dry run that reported a file of one group and was then
\* aborted by a stat failure in the next group
DryRunAbortedAfterReport ==
    /\ dry_run
    /\ pc = "raised_in_choose_file_to_keep"
    /\ gi = 2
    /\ SaidAny("Would remove")

\* C2: once an unlink has failed in destructive mode, remove_duplicates does
\* not end before every group has been decided and every file of every group
\* has been kept, removed or reported as failing.
EveryGroupProcessedAfterUnlinkFailure ==
    (SaidAny("Error removing") /\ ~InRemoveDuplicates) =>
        \A g \in 1..Len(duplicates) :
            /\ GroupLines(g) # {}
            /\ \A f \in Range(duplicates[g][2]) :
                 Said("Keeping", f) \/ Said("Removed", f) \/ Said("Error removing", f)

\* C3: for every group of two or more files that remove_duplicates has
\* decided, the kept file is a file of the group, the files to remove are the
\* group without the kept file, and there is one fewer of them than files in
\* the group.
DecisionInvariant ==
    (pc = "rd_file" /\ Len(GroupFiles) >= 2) =>
        /\ keep_file \in Range(GroupFiles)
        /\ Range(files_to_remove) = Range(GroupFiles) \ {keep_file}
        /\ Len(files_to_remove) = Len(GroupFiles) - 1

\* C3 witness: a decided group of three files in a directory with a fourth
DecidedGroupOfThree ==
    /\ pc = "rd_file"
    /\ Len(GroupFiles) = 3
    /\ Cardinality(Glob) = 4

\* C4: the mapping either scan returns has no group of fewer than two files,
\* only entries of the directory that match *.flac, and no file twice, in one
\* group or in two.
ScanGroupsWellFormed ==
    pc = "display" =>
        /\ \A g \in 1..Len(duplicates) :
             /\ Len(duplicates[g][2]) >= 2
             /\ Range(duplicates[g][2]) \subseteq Glob
        /\ \A g, h \in 1..Len(duplicates) :
             \A i \in 1..Len(duplicates[g][2]), j \in 1..Len(duplicates[h][2]) :
                duplicates[g][2][i] = duplicates[h][2][j] => g = h /\ i = j

\* C4 witness: a hash scan that returned one group from a directory that
\* also holds a matching file with content of its own and an entry that does
\* not match but has the content of the group
HashScanReturnedOneGroup ==
    /\ pc = "display"
    /\ byHash
    /\ Len(duplicates) = 1
    /\ \E n \in Glob : n \notin Range(duplicates[1][2])
    /\ \E n \in DOMAIN fs \ Glob : fs[n] = fs[duplicates[1][2][1]]

\* C5: choose_file_to_keep returns the file that comes first by size
\* descending and then name ascending, whatever the order of the list (every
\* order of every directory is an input, and the reversed list is compared);
\* with all sizes distinct the file returned is strictly the largest.
KeepIsFirstBySizeThenName ==
    pc = "keep_done" =>
        /\ keep_file \in Range(files)
        /\ \A g \in Range(files) \ {keep_file} :
             \/ st_size(keep_file) > st_size(g)
             \/ st_size(keep_file) = st_size(g) /\ StrLess(keep_file, g)
        /\ choose_file_to_keep([i \in 1..Len(files) |-> files[Len(files) + 1 - i]]) = keep_file
        /\ (\A a, b \in Range(files) : a # b => st_size(a) # st_size(b)) =>
             \A g \in Range(files) \ {keep_file} : st_size(keep_file) > st_size(g)

\* C5 witness: three files, the two largest of equal size, and the file
\* returned is not the first of the list
KeepDecidedByName ==
    /\ pc = "keep_done"
    /\ Len(files) = 3
    /\ keep_file # files[1]
    /\ \E g \in Range(files) \ {keep_file} : st_size(g) = st_size(keep_file)
    /\ \E g \in Range(files) : st_size(g) < st_size(keep_file)

\* C6: a step of main removes an entry of the directory only when the user
\* has already chosen action 2 and then answered yes to the confirmation.
NoUnlinkWithoutConfirmation ==
    [][(fs' # fs \/ (~SaidAny("Removed") /\ SaidAny("Removed")')) =>
          /\ Len(answered) = 3
          /\ answered[2] = <<"2">>
          /\ answered[3] = Yes]_vars

\* C6 witness: a file has been removed
RemovedAfterConfirmation ==
    /\ SaidAny("Removed")
    /\ Len(answered) = 3
    /\ answered[3] = Yes

\* C7: in every step each group stays where it is or moves forward in
\* Grouped -> Decided -> {Reported, AppliedSuccess, AppliedPartialFailure}
\* and never leaves a final state; no group is decided twice, no file gets
\* two outcomes, and every outcome line of a group's file follows the group's
\* "Group" and "Keeping" lines.
GroupsOnlyMoveForward ==
    [][\A g \in 1..Len(duplicates) :
          /\ Rank(GroupState(g)) <= Rank(GroupState(g)')
          /\ Rank(GroupState(g)) = 2 => GroupState(g)' = GroupState(g)
          /\ Cardinality(GroupLines(g)') <= 1
          /\ Cardinality(OutcomeLines(g)') <= Len(duplicates[g][2]) - 1
          /\ \A i \in OutcomeLines(g)' :
               /\ \E k \in GroupLines(g)' :
                    k + 1 < i /\ out'[k + 1][1] = "Keeping" /\ out'[k + 1][2] # out'[i][2]
               /\ \A j \in OutcomeLines(g)' : out'[i][2] = out'[j][2] => i = j]_vars

\* C7 witness: one group applied with a failure, the next one decided and not
\* yet applied
OneGroupAppliedNextDecided ==
    /\ Len(duplicates) = 2
    /\ GroupState(1) = "AppliedPartialFailure"
    /\ GroupState(2) = "Decided"

\* C8: for a filename <digits><spaces>-<spaces><title>.<ext>,
\* extract_song_title returns the title with surrounding quote characters and
\* then surrounding whitespace stripped, and returns the same for every other
\* track number, extension and quoting of that title.
TitleIsStrippedTitlePart ==
    pc = "title_done" =>
        /\ title = Strip(StripChars(parts.t, Quotes))
        /\ \A d \in TrackNumbers, e \in Extensions, q \in QuoteMarks :
             extract_song_title(MakeName(d, <<>>, <<>>, q \o parts.t \o q, e)) = title

\* C8 witness: "07 - 'a'.flac" gave a
QuotedTitleExtracted ==
    /\ pc = "title_done"
    /\ filename = <<"0", "7", " ", "-", " ", "'", "a", "'", ".", "f", "l", "a", "c">>
    /\ title = <<"a">>

\* C9: in destructive mode every file reported as kept is still in the
\* directory and never reported as removed, every file reported as removed is
\* gone, and when remove_duplicates returns without a failed unlink each group
\* has exactly one file left, the kept one.
KeptFilesSurvive ==
    ~dry_run =>
        /\ \A i \in 1..Len(out) :
             /\ out[i][1] = "Keeping" =>
                  out[i][2] \in DOMAIN fs /\ ~Said("Removed", out[i][2])
             /\ out[i][1] = "Removed" => out[i][2] \notin DOMAIN fs
        /\ (SaidAny("Removed total") /\ ~SaidAny("Error removing")) =>
             \A g \in 1..Len(duplicates) :
                \E f \in Range(duplicates[g][2]) :
                   Range(duplicates[g][2]) \cap DOMAIN fs = {f} /\ Said("Keeping", f)

\* C9 witness: two groups resolved without a failure
TwoGroupsResolved ==
    /\ ~dry_run
    /\ Len(duplicates) = 2
    /\ Said("Removed total", 2)
    /\ Cardinality(Glob) = 2

\* C10: when a matching file cannot be read, choosing the hash scan ends main
\* in get_file_hash with no groups bound and the directory as it was, and
\* nothing runs after that.
HashScanAbortsOnUnreadableFile ==
    [][/\ (pc = "choice" /\ byHash' /\ dirExists /\ Glob \cap unreadable # {}) =>
            /\ pc' = "raised_in_get_file_hash"
            /\ duplicates' = <<>>
            /\ fs' = fs
       /\ pc # "raised_in_get_file_hash"]_vars

\* C10 witness: the scan was aborted in a directory where two readable files
\* have the same content
HashScanAbortedDespiteDuplicates ==
    /\ pc = "raised_in_get_file_hash"
    /\ \E a, b \in Glob \ unreadable : a # b /\ fs[a] = fs[b]

=============================================================================
